---- MODULE Spec2Model ----
(***************************************************************************)
(* The dosing pipeline of app/services/llm.py: the device registry         *)
(* (DosingManager), the prompt builder, the advisor call with its          *)
(* clean-up of the answer, the response validator, the dosing executor     *)
(* and process_dosing_request, which runs them in sequence.                *)
(*                                                                         *)
(* A run is one invocation of process_dosing_request.  Its position is     *)
(* pc[r]; its locals are args, device, prompt, content, dosing_plan and    *)
(* exec_device.  Runs are coroutines of one event loop: control changes    *)
(* hands only where a run awaits (the advisor call, the publish).          *)
(***************************************************************************)
EXTENDS Integers, Sequences, FiniteSets, TLC

\* Longest actions list the advisor returns in the model.
MaxActions == 2

\* dosing_plan.get("next_check_hours", 24)
DefaultNextCheckHours == 24

Runs == {"r1", "r2"}

DeviceIds == {"dev1", "dev2"}

(***************************************************************************)
(* JSON values as Python sees them after json.loads.  A scalar or a list   *)
(* is a record with a type tag t; a JSON object is a record keyed by its   *)
(* member names (and so has no t).  Floats are kept in tenths; nan is the  *)
(* float that json.loads returns for the literal NaN.                      *)
(***************************************************************************)
PyInt(n) == [t |-> "int", n |-> n, s |-> ""]

PyFloat(tenths) == [t |-> "float", n |-> tenths, s |-> ""]

NaN == [t |-> "float", n |-> 0, s |-> "nan"]

PyBool(b) == [t |-> "bool", n |-> IF b THEN 1 ELSE 0, s |-> ""]

PyStr(s) == [t |-> "str", n |-> 0, s |-> s]

Null == [t |-> "null", n |-> 0, s |-> ""]

PyList(items) == [t |-> "list", items |-> items]

\* The value of a local that has not been assigned yet.
None == [t |-> "none"]

\* isinstance(v, dict)
IsDict(v) == "t" \notin DOMAIN v

\* isinstance(v, list)
IsList(v) == IF IsDict(v) THEN FALSE ELSE v.t = "list"

\* isinstance(v, (int, float)); bool is a subclass of int
IsIntOrFloat(v) == IF IsDict(v) THEN FALSE ELSE v.t \in {"int", "float", "bool"}

\* v < 0 for a number; every comparison with nan is false
LessThanZero(v) == v.s # "nan" /\ v.n < 0

(***************************************************************************)
(* The registry.                                                           *)
(***************************************************************************)
\* Variant: one topic for every device.
MqttTopicShared(device_id) == <<"krishiverse", "devices", "dev1", "dosing">>

MqttTopic(device_id) == <<"krishiverse", "devices", device_id, "dosing">>

DosingDevice(device_id, pumps_config) ==
    [device_id |-> device_id,
     pumps_config |-> pumps_config,
     mqtt_topic |-> MqttTopic(device_id)]

\* pumps_config values: the pumps in configuration order
CfgAB ==
    << [chemical_name |-> "Nutrient A", chemical_description |-> "Primary nutrients NPK"],
       [chemical_name |-> "Nutrient B", chemical_description |-> "Supplemental nutrient blend"] >>

CfgB ==
    << [chemical_name |-> "Nutrient B", chemical_description |-> "Supplemental nutrient blend"] >>

PumpConfigs == {CfgAB, CfgB}

(***************************************************************************)
(* Inputs of a run.                                                        *)
(***************************************************************************)
SensorInputs == { [ph |-> PyFloat(62), tds |-> PyInt(680)] }

PlantInputs ==
    { [plant_name |-> "Lettuce", current_age |-> 20, seeding_age |-> 5],
      [current_age |-> 20, seeding_age |-> 5] }

(***************************************************************************)
(* build_dosing_prompt.  The prompt is kept as the values the f-string     *)
(* renders; a plant profile without one of the subscripted keys, or a      *)
(* pump entry without its two keys, raises KeyError.                       *)
(***************************************************************************)
PromptKeyError(dev, plant_profile) ==
    \/ ~({"plant_name", "current_age", "seeding_age"} \subseteq DOMAIN plant_profile)
    \/ \E i \in 1..Len(dev.pumps_config) :
          ~({"chemical_name", "chemical_description"} \subseteq DOMAIN dev.pumps_config[i])

BuildDosingPrompt(dev, sensor_data, plant_profile) ==
    [ph |-> IF "ph" \in DOMAIN sensor_data THEN sensor_data.ph ELSE PyStr("Unknown"),
     tds |-> IF "tds" \in DOMAIN sensor_data THEN sensor_data.tds ELSE PyStr("Unknown"),
     plant_name |-> plant_profile.plant_name,
     current_age |-> plant_profile.current_age,
     seeding_age |-> plant_profile.seeding_age,
     location |-> IF "weather_locale" \in DOMAIN plant_profile
                  THEN plant_profile.weather_locale ELSE "Unknown",
     pump_info |-> [i \in 1..Len(dev.pumps_config) |->
                      [pump |-> i,
                       chemical_name |-> dev.pumps_config[i].chemical_name,
                       chemical_description |-> dev.pumps_config[i].chemical_description]]]

(***************************************************************************)
(* The advisor's text: a sequence of pieces, each a run of whitespace, a   *)
(* <think>...</think> block, the text of one JSON value, or text that is   *)
(* not JSON.                                                               *)
(***************************************************************************)
Ws == [k |-> "ws", v |-> Null]

Think == [k |-> "think", v |-> Null]

Junk == [k |-> "junk", v |-> Null]

Json(v) == [k |-> "json", v |-> v]

\* A Python str holding such a text.
Text(pieces) == [t |-> "text", pieces |-> pieces]

RECURSIVE LStrip(_)
LStrip(text) ==
    IF text # <<>> /\ Head(text).k = "ws" THEN LStrip(Tail(text)) ELSE text

RECURSIVE RStrip(_)
RStrip(text) ==
    IF text # <<>> /\ text[Len(text)].k = "ws"
    THEN RStrip(SubSeq(text, 1, Len(text) - 1)) ELSE text

\* str.strip()
Strip(text) == RStrip(LStrip(text))

IsNotThink(piece) == piece.k # "think"

\* re.sub(r'<think>.*?</think>', '', content, flags=re.DOTALL)
RemoveThink(text) == SelectSeq(text, IsNotThink)

\* json.loads succeeds on the text of exactly one JSON value
JsonLoadsOk(text) == Len(text) = 1 /\ text[1].k = "json"

JsonLoads(text) == text[1].v

(***************************************************************************)
(* validate_llm_response: "" when the response passes, else the message    *)
(* of the ValueError raised.                                               *)
(***************************************************************************)
RequiredKeys == {"pump_number", "chemical_name", "dose_ml", "reasoning"}

ActionError(action) ==
    IF ~(RequiredKeys \subseteq DOMAIN action)
    THEN "Action missing required keys"
    ELSE IF ~IsIntOrFloat(action.dose_ml) \/ LessThanZero(action.dose_ml)
         THEN "dose_ml must be a positive number"
         ELSE ""

FirstActionError(items) ==
    LET bad == {i \in 1..Len(items) : ActionError(items[i]) # ""}
    IN  IF bad = {} THEN ""
        ELSE ActionError(items[CHOOSE i \in bad : \A j \in bad : i <= j])

ValidateLlmResponse(response) ==
    IF ~IsDict(response) THEN "Response must be a dictionary"
    ELSE IF "actions" \notin DOMAIN response THEN "Response must contain 'actions' key"
    ELSE IF ~IsList(response.actions) THEN "'actions' must be a list"
    ELSE FirstActionError(response.actions.items)

(***************************************************************************)
(* execute_dosing_plan: the message it builds.                             *)
(***************************************************************************)
RECURSIVE Reverse(_)
Reverse(q) == IF q = <<>> THEN <<>> ELSE Append(Reverse(Tail(q)), Head(q))

\* Variant: the actions are written out last first.
BuildMessageReversed(device_id, plan) ==
    [timestamp |-> "utcnow",
     device_id |-> device_id,
     actions |-> PyList(Reverse(plan.actions.items)),
     next_check_hours |-> IF "next_check_hours" \in DOMAIN plan
                          THEN plan.next_check_hours
                          ELSE PyInt(DefaultNextCheckHours)]

BuildMessage(device_id, plan) ==
    [timestamp |-> "utcnow",
     device_id |-> device_id,
     actions |-> plan.actions,
     next_check_hours |-> IF "next_check_hours" \in DOMAIN plan
                          THEN plan.next_check_hours
                          ELSE PyInt(DefaultNextCheckHours)]

\* MQTTPublisher.publish either delivers or raises
PublishOutcomes == {"ok", "TransportError"}

(***************************************************************************)
(* What the advisor may answer.                                            *)
(***************************************************************************)
Action(p, c, d) ==
    [pump_number |-> p, chemical_name |-> PyStr(c), dose_ml |-> d,
     reasoning |-> PyStr("Brief explanation")]

ActionValues ==
    { Action(PyInt(1), "Nutrient A", PyFloat(300)),
      Action(PyInt(2), "Nutrient B", PyFloat(200)),
      Action(PyInt(5), "Nutrient A", PyFloat(300)),
      Action(PyInt(1), "Nutrient C", PyFloat(300)),
      Action(PyInt(1), "Nutrient A", PyInt(0)),
      Action(PyInt(1), "Nutrient A", PyFloat(-50)),
      Action(PyInt(1), "Nutrient A", NaN),
      Action(PyInt(1), "Nutrient A", PyBool(TRUE)),
      Action(PyInt(1), "Nutrient A", PyStr("plenty")),
      [pump_number |-> PyInt(1), chemical_name |-> PyStr("Nutrient A"),
       reasoning |-> PyStr("Brief explanation")] }

ActionLists == UNION {[1..n -> ActionValues] : n \in 0..MaxActions}

NextCheckValues == {PyInt(12), PyInt(0), PyStr("soon")}

JsonValues ==
    {[actions |-> PyList(al)] : al \in ActionLists}
    \cup {[actions |-> PyList(al), next_check_hours |-> h] :
             al \in ActionLists, h \in NextCheckValues}
    \cup {[next_check_hours |-> PyInt(12)], [actions |-> PyStr("none")],
          Null, PyInt(3), PyList(<<>>)}

Prefixes == {<<>>, <<Think, Ws>>}

Bodies == {<<>>, <<Ws>>, <<Junk>>, <<Junk, Think, Junk>>} \cup {<<Json(v)>> : v \in JsonValues}

RawOutputs == {pre \o body : pre \in Prefixes, body \in Bodies}

\* Scenario A's plan, and a one-action plan
PlanA ==
    [actions |-> PyList(<<Action(PyInt(1), "Nutrient A", PyFloat(300)),
                        Action(PyInt(2), "Nutrient B", PyFloat(200))>>),
     next_check_hours |-> PyInt(12)]

PlanB == [actions |-> PyList(<<Action(PyInt(1), "Nutrient B", PyFloat(100))>>)]

ConcRawOutputs ==
    { <<Json(PlanA)>>, <<Think, Ws, Json(PlanB)>>, <<Junk>>, <<Think>>,
      <<Json([actions |-> PyList(<<Action(PyInt(1), "Nutrient A", PyFloat(-50))>>)])>> }

(***************************************************************************)
(* State.                                                                  *)
(***************************************************************************)
VARIABLES
    devices,      \* dosing_manager.devices: device id -> DosingDevice
    mqtt,         \* the calls of MQTTPublisher.publish so far, in order
    pc,           \* the stage of each run
    args,         \* the arguments of each run
    device,       \* build_dosing_prompt's device
    prompt,       \* the prompt sent to the advisor
    content,      \* call_llm_async's content
    dosing_plan,  \* the plan call_llm_async returned
    exec_device,  \* execute_dosing_plan's device
    result        \* what the run returned or raised

vars == <<devices, mqtt, pc, args, device, prompt, content, dosing_plan,
          exec_device, result>>

Init ==
    /\ devices = [d \in {} |-> None]
    /\ mqtt = <<>>
    /\ pc = [r \in Runs |-> "Idle"]
    /\ args = [r \in Runs |-> None]
    /\ device = [r \in Runs |-> None]
    /\ prompt = [r \in Runs |-> None]
    /\ content = [r \in Runs |-> None]
    /\ dosing_plan = [r \in Runs |-> None]
    /\ exec_device = [r \in Runs |-> None]
    /\ result = [r \in Runs |-> [status |-> "pending"]]

\* A run that is not executing: not started, finished, or waiting in an await.
Parked(q) == pc[q] \in {"Idle", "Advising", "Dispatching", "Done", "Failed"}

\* The event loop runs one coroutine at a time.
CanStep(r) == \A q \in Runs \ {r} : Parked(q)

\* Variant: a failed run starts over instead of ending.
RaiseAndRestart(r, error, detail) ==
    /\ pc' = [pc EXCEPT ![r] = "Fetching"]
    /\ result' = [result EXCEPT ![r] =
                     [status |-> "raised", stage |-> pc[r],
                      error |-> error, detail |-> detail]]

\* The exception leaves process_dosing_request.
Raise(r, error, detail) ==
    /\ pc' = [pc EXCEPT ![r] = "Failed"]
    /\ result' = [result EXCEPT ![r] =
                     [status |-> "raised", stage |-> pc[r],
                      error |-> error, detail |-> detail]]

\* dosing_manager.register_device
RegisterDevice(d, cfg) ==
    /\ \A q \in Runs : Parked(q)
    /\ devices' = [x \in DOMAIN devices \cup {d} |->
                      IF x = d THEN DosingDevice(d, cfg) ELSE devices[x]]
    /\ UNCHANGED <<mqtt, pc, args, device, prompt, content, dosing_plan,
                   exec_device, result>>

\* process_dosing_request is called
Invoke(r, d, sensor_data, plant_profile) ==
    /\ pc[r] = "Idle"
    /\ CanStep(r)
    /\ pc' = [pc EXCEPT ![r] = "Fetching"]
    /\ args' = [args EXCEPT ![r] =
                   [device_id |-> d, sensor_data |-> sensor_data,
                    plant_profile |-> plant_profile]]
    /\ UNCHANGED <<devices, mqtt, device, prompt, content, dosing_plan,
                   exec_device, result>>

\* build_dosing_prompt: dosing_manager.get_device(device_id)
GetDevice(r) ==
    /\ pc[r] = "Fetching"
    /\ CanStep(r)
    /\ IF args[r].device_id \in DOMAIN devices
       THEN /\ device' = [device EXCEPT ![r] = devices[args[r].device_id]]
            /\ pc' = [pc EXCEPT ![r] = "Prompting"]
            /\ UNCHANGED result
       ELSE /\ Raise(r, "ValueError", "Dosing device not registered")
            /\ UNCHANGED device
    /\ UNCHANGED <<devices, mqtt, args, prompt, content, dosing_plan, exec_device>>

\* build_dosing_prompt: the rendering; then the advisor call is issued
BuildPrompt(r) ==
    /\ pc[r] = "Prompting"
    /\ CanStep(r)
    /\ IF PromptKeyError(device[r], args[r].plant_profile)
       THEN /\ Raise(r, "KeyError", "missing key")
            /\ UNCHANGED prompt
       ELSE /\ prompt' = [prompt EXCEPT ![r] =
                   BuildDosingPrompt(device[r], args[r].sensor_data,
                                     args[r].plant_profile)]
            /\ pc' = [pc EXCEPT ![r] = "Advising"]
            /\ UNCHANGED result
    /\ UNCHANGED <<devices, mqtt, args, device, content, dosing_plan, exec_device>>

\* ollama.chat raises in its thread; call_llm_async re-raises
AdvisorRaises(r) ==
    /\ pc[r] = "Advising"
    /\ CanStep(r)
    /\ Raise(r, "AdvisorUnavailable", "LLM call failed")
    /\ UNCHANGED <<devices, mqtt, args, device, prompt, content, dosing_plan,
                   exec_device>>

\* ollama.chat returns raw; the blank check, then the think blocks are removed
AdvisorReturns(r, raw) ==
    /\ pc[r] = "Advising"
    /\ CanStep(r)
    /\ IF Strip(raw) = <<>>
       THEN /\ content' = [content EXCEPT ![r] = Text(Strip(raw))]
            /\ Raise(r, "ValueError", "Empty response from LLM")
       ELSE /\ content' = [content EXCEPT ![r] = Text(Strip(RemoveThink(Strip(raw))))]
            /\ pc' = [pc EXCEPT ![r] = "Validating"]
            /\ UNCHANGED result
    /\ UNCHANGED <<devices, mqtt, args, device, prompt, dosing_plan, exec_device>>

\* Variant: text that does not parse is replaced by an empty plan.
ParseAndValidateBestGuess(r) ==
    /\ pc[r] = "Validating"
    /\ CanStep(r)
    /\ IF ~JsonLoadsOk(content[r].pieces)
       THEN /\ dosing_plan' = [dosing_plan EXCEPT ![r] = [actions |-> PyList(<<>>)]]
            /\ pc' = [pc EXCEPT ![r] = "Dispatching"]
            /\ UNCHANGED result
       ELSE IF ValidateLlmResponse(JsonLoads(content[r].pieces)) # ""
            THEN /\ Raise(r, "ValueError", ValidateLlmResponse(JsonLoads(content[r].pieces)))
                 /\ UNCHANGED dosing_plan
            ELSE /\ dosing_plan' = [dosing_plan EXCEPT ![r] = JsonLoads(content[r].pieces)]
                 /\ pc' = [pc EXCEPT ![r] = "Dispatching"]
                 /\ UNCHANGED result
    /\ UNCHANGED <<devices, mqtt, args, device, prompt, content, exec_device>>

\* json.loads and validate_llm_response
ParseAndValidate(r) ==
    /\ pc[r] = "Validating"
    /\ CanStep(r)
    /\ IF ~JsonLoadsOk(content[r].pieces)
       THEN /\ Raise(r, "ValueError", "Invalid JSON response from LLM")
            /\ UNCHANGED dosing_plan
       ELSE IF ValidateLlmResponse(JsonLoads(content[r].pieces)) # ""
            THEN /\ Raise(r, "ValueError", ValidateLlmResponse(JsonLoads(content[r].pieces)))
                 /\ UNCHANGED dosing_plan
            ELSE /\ dosing_plan' = [dosing_plan EXCEPT ![r] = JsonLoads(content[r].pieces)]
                 /\ pc' = [pc EXCEPT ![r] = "Dispatching"]
                 /\ UNCHANGED result
    /\ UNCHANGED <<devices, mqtt, args, device, prompt, content, exec_device>>

\* Variant: a failed publish is tried once more and the message returned.
ExecuteDosingPlanRetry(r, outcome) ==
    /\ pc[r] = "Dispatching"
    /\ CanStep(r)
    /\ exec_device' = [exec_device EXCEPT ![r] = devices[args[r].device_id]]
    /\ LET call == [caller |-> r,
                    topic |-> devices[args[r].device_id].mqtt_topic,
                    message |-> BuildMessage(args[r].device_id, dosing_plan[r]),
                    outcome |-> outcome]
       IN  mqtt' = IF outcome = "ok" THEN Append(mqtt, call)
                   ELSE Append(Append(mqtt, call), call)
    /\ pc' = [pc EXCEPT ![r] = "Done"]
    /\ result' = [result EXCEPT ![r] =
          [status |-> "returned",
           value |-> BuildMessage(args[r].device_id, dosing_plan[r])]]
    /\ UNCHANGED <<devices, args, device, prompt, content, dosing_plan>>

\* execute_dosing_plan, and the return of process_dosing_request
ExecuteDosingPlan(r, outcome) ==
    /\ pc[r] = "Dispatching"
    /\ CanStep(r)
    /\ IF args[r].device_id \notin DOMAIN devices
       THEN /\ Raise(r, "ValueError", "Dosing device not registered")
            /\ UNCHANGED <<exec_device, mqtt>>
       ELSE /\ exec_device' = [exec_device EXCEPT ![r] = devices[args[r].device_id]]
            /\ mqtt' = Append(mqtt,
                   [caller |-> r,
                    topic |-> devices[args[r].device_id].mqtt_topic,
                    message |-> BuildMessage(args[r].device_id, dosing_plan[r]),
                    outcome |-> outcome])
            /\ IF outcome = "ok"
               THEN /\ pc' = [pc EXCEPT ![r] = "Done"]
                    /\ result' = [result EXCEPT ![r] =
                          [status |-> "returned",
                           value |-> BuildMessage(args[r].device_id, dosing_plan[r])]]
               ELSE Raise(r, "TransportError", "publish failed")
    /\ UNCHANGED <<devices, args, device, prompt, content, dosing_plan>>

NextOver(runs, raws, cfgs) ==
    \/ \E d \in DeviceIds, cfg \in cfgs : RegisterDevice(d, cfg)
    \/ \E r \in runs, d \in DeviceIds, sd \in SensorInputs, pp \in PlantInputs :
          Invoke(r, d, sd, pp)
    \/ \E r \in runs : GetDevice(r)
    \/ \E r \in runs : BuildPrompt(r)
    \/ \E r \in runs : AdvisorRaises(r)
    \/ \E r \in runs, raw \in raws : AdvisorReturns(r, raw)
    \/ \E r \in runs : ParseAndValidate(r)
    \/ \E r \in runs, outcome \in PublishOutcomes : ExecuteDosingPlan(r, outcome)

\* One run, every answer of the advisor, devices registered with two pumps.
Next == NextOver({"r1"}, RawOutputs, {CfgAB})

Spec == Init /\ [][Next]_vars

\* Two runs side by side, a few answers, devices registered and re-registered.
NextConc == NextOver(Runs, ConcRawOutputs, PumpConfigs)

SpecConc == Init /\ [][NextConc]_vars

(***************************************************************************)
(* Properties.                                                             *)
(***************************************************************************)
\* The publish calls a run has made.
CallsOf(r) == {i \in 1..Len(mqtt) : mqtt[i].caller = r}

\* The advisor's answer of run r parsed and passed validate_llm_response.
AnswerAccepted(r) ==
    /\ content[r] # None
    /\ JsonLoadsOk(content[r].pieces)
    /\ ValidateLlmResponse(JsonLoads(content[r].pieces)) = ""

\* C1: a run calls publish only after its advisor answer parsed as a
\* structured object and passed every check of the validator; a run that
\* failed at the lookup, the prompt, the advisor call, the parse or the
\* validation has made no publish call, and an answer that does not parse
\* or validate never gets past the Validating stage.
FailClosedDispatch ==
    \A r \in Runs :
        /\ CallsOf(r) # {} => AnswerAccepted(r) /\ IsDict(JsonLoads(content[r].pieces))
        /\ pc[r] \in {"Dispatching", "Done"} => AnswerAccepted(r)
        /\ (pc[r] = "Failed" /\ result[r].stage # "Dispatching") => CallsOf(r) = {}
        /\ (content[r] # None /\ ~AnswerAccepted(r)) =>
               pc[r] \in {"Validating", "Failed"} /\ CallsOf(r) = {}

\* C1 witness: the advisor's text did not parse, the run failed and nothing
\* was published.
ParseFailureNoPublish ==
    /\ pc["r1"] = "Failed"
    /\ result["r1"].stage = "Validating"
    /\ result["r1"].detail = "Invalid JSON response from LLM"
    /\ content["r1"].pieces = <<Junk>>
    /\ mqtt = <<>>

\* The pump configuration the message of call i was published against.
ConfigAtPublish(i) == exec_device[mqtt[i].caller].pumps_config

\* C2: every action of every published message names a configured pump slot
\* of the target device and that slot's chemical.
DomainCrossCheck ==
    \A i \in 1..Len(mqtt) :
        \A j \in 1..Len(mqtt[i].message.actions.items) :
            LET a == mqtt[i].message.actions.items[j]
                cfg == ConfigAtPublish(i)
            IN  /\ a.pump_number.t = "int"
                /\ a.pump_number.n \in 1..Len(cfg)
                /\ a.chemical_name.s = cfg[a.pump_number.n].chemical_name

\* C3: every action of every published message has a dose_ml that is a
\* number and is >= 0.
DoseRangeCheck ==
    \A i \in 1..Len(mqtt) :
        \A j \in 1..Len(mqtt[i].message.actions.items) :
            LET d == mqtt[i].message.actions.items[j].dose_ml
            IN  /\ d.t \in {"int", "float"}
                /\ d.s # "nan"
                /\ d.n >= 0

\* C4: every published message has a next_check_hours that is a positive
\* integer.
IntervalCheck ==
    \A i \in 1..Len(mqtt) :
        /\ mqtt[i].message.next_check_hours.t = "int"
        /\ mqtt[i].message.next_check_hours.n > 0

StageSucc(s) ==
    CASE s = "Idle" -> "Fetching"
      [] s = "Fetching" -> "Prompting"
      [] s = "Prompting" -> "Advising"
      [] s = "Advising" -> "Validating"
      [] s = "Validating" -> "Dispatching"
      [] s = "Dispatching" -> "Done"
      [] OTHER -> s

StageOrderStep(r) ==
    /\ pc'[r] # pc[r] =>
          /\ pc[r] \notin {"Done", "Failed"}
          /\ \/ pc'[r] = StageSucc(pc[r])
             \/ pc[r] # "Idle" /\ pc'[r] = "Failed"
    /\ (pc'[r] = "Dispatching" /\ pc[r] # "Dispatching") =>
          /\ pc[r] = "Validating"
          /\ ValidateLlmResponse(dosing_plan'[r]) = ""
    /\ pc[r] \in {"Done", "Failed"} =>
          /\ result'[r] = result[r]
          /\ prompt'[r] = prompt[r]
          /\ content'[r] = content[r]
          /\ dosing_plan'[r] = dosing_plan[r]
          /\ {i \in 1..Len(mqtt') : mqtt'[i].caller = r} = CallsOf(r)

\* C5: a run leaves Idle only for Fetching and then moves one stage forward
\* at a time through Fetching, Prompting, Advising, Validating, Dispatching,
\* Done, or from a stage it has entered to Failed; Dispatching is entered
\* only from Validating with a plan that passed validation; once Done or
\* Failed, the run changes nothing more and publishes nothing more.
StageOrdering == [][\A r \in Runs : StageOrderStep(r)]_vars

\* C5 witness: a run went through every stage to Done.
RunReachedDone ==
    /\ pc["r1"] = "Done"
    /\ result["r1"].status = "returned"
    /\ Len(mqtt) = 1

\* C6: the message a run returns, which is the message it published, has
\* the actions of the plan the advisor gave, same count, same order, same
\* members with the same values, the plan's next_check_hours (24 when the
\* plan has none) and the run's device id.
PlanRoundTrip ==
    \A r \in Runs :
        pc[r] = "Done" =>
            LET plan == JsonLoads(content[r].pieces)
                m == result[r].value
            IN  /\ Len(m.actions.items) = Len(plan.actions.items)
                /\ \A j \in 1..Len(plan.actions.items) :
                      /\ DOMAIN m.actions.items[j] = DOMAIN plan.actions.items[j]
                      /\ \A k \in DOMAIN plan.actions.items[j] :
                            m.actions.items[j][k] = plan.actions.items[j][k]
                /\ m.next_check_hours =
                      IF "next_check_hours" \in DOMAIN plan
                      THEN plan.next_check_hours ELSE PyInt(24)
                /\ m.device_id = args[r].device_id
                /\ \A i \in CallsOf(r) : mqtt[i].message = m

\* C6 witness: Scenario A, two different actions returned in the plan's order.
ScenarioADispatched ==
    /\ pc["r1"] = "Done"
    /\ content["r1"].pieces = <<Json(PlanA)>>
    /\ Len(result["r1"].value.actions.items) = 2
    /\ result["r1"].value.actions.items[1].pump_number = PyInt(1)
    /\ result["r1"].value.actions.items[2].pump_number = PyInt(2)
    /\ result["r1"].value.next_check_hours = PyInt(12)

RunsIndependent ==
    \A r \in Runs :
        /\ Cardinality(CallsOf(r)) <= 1
        /\ \A i \in CallsOf(r) :
              /\ mqtt[i].topic = <<"krishiverse", "devices", args[r].device_id, "dosing">>
              /\ mqtt[i].message.device_id = args[r].device_id
              /\ mqtt[i].message.actions = JsonLoads(content[r].pieces).actions
        /\ pc[r] = "Done" =>
              /\ result[r].value.device_id = args[r].device_id
              /\ result[r].value.actions = JsonLoads(content[r].pieces).actions
              /\ \E i \in CallsOf(r) : mqtt[i].outcome = "ok"
        /\ (pc[r] = "Failed" /\ result[r].stage = "Validating") => ~AnswerAccepted(r)

\* C8 witness: two runs on different devices with different plans, both Done.
TwoRunsDone ==
    /\ pc["r1"] = "Done"
    /\ pc["r2"] = "Done"
    /\ args["r1"].device_id # args["r2"].device_id
    /\ result["r1"].value.actions # result["r2"].value.actions
    /\ Len(mqtt) = 2

\* C9: the device a run dispatches against is the device it loaded when it
\* built the prompt.
ProfileStable ==
    \A r \in Runs : exec_device[r] # None => exec_device[r] = device[r]

\* C10: a run whose advisor answer is blank once the think blocks and the
\* surrounding whitespace are removed fails with the empty-response error,
\* not with a parse error.
EmptyResponseOnBlank ==
    \A r \in Runs :
        (content[r] # None /\ content[r].pieces = <<>> /\ pc[r] = "Failed") =>
            result[r].detail = "Empty response from LLM"
====
